---- MODULE Spec2Model ----
(***************************************************************************)
(* MaximaServer (include/maxima_server.py): a TCP server that accepts      *)
(* client connections on worker threads, relays what the clients send      *)
(* into a thread-safe response queue, launches the Maxima engine and polls *)
(* the queue for the engine's first prompt.                                *)
(*                                                                         *)
(* Texts are tuples of one-character strings.  Threads are modelled one    *)
(* step per access to shared state (the running flag, a socket, the        *)
(* queue).                                                                 *)
(***************************************************************************)
EXTENDS Integers, Sequences, FiniteSets, TLC

(***************************************************************************)
(* Bounds of the model.                                                    *)
(***************************************************************************)
\* ports are 0 .. MaxPort
MaxPort == 2
\* peers that exist (the engine is one of them)
MaxClients == 3
\* consumer threads that exist
MaxConsumers == 1
\* calls of start_instance on the one MaximaServer object
MaxStarts == 2
\* SpecReady: calls of start_instance, chunks the engine sends
ReadyStarts == 1
ReadySends == 2
\* SpecQueue: chunks the first peer sends (the second peer sends one)
QueueSends == 2
\* SpecStop: calls of start_instance, calls of stop, chunks the engine sends
StopStarts == 2
StopStops == 2
StopSends == 2
\* SpecHalt: calls of start_instance, calls of stop
HaltStarts == 1
HaltStops == 1
\* SpecSession: calls of stop, chunks a client sends
SessionStops == 1
SessionSends == 2
\* SpecAfter: calls of stop, chunks a client sends
AfterStops == 1
AfterSends == 1
\* SpecStart: calls of start_instance, calls of stop, chunks the engine sends
StartStarts == 2
StartStops == 1
StartSends == 1

\* self.port = None, self.server_socket = None, no thread
None == -1

\* if wait_time > 10
WaitCycles == 10

Ports == 0 .. MaxPort
Clients == 1 .. MaxClients
Consumers == 1 .. MaxConsumers
\* the thread that calls start_instance (the readiness loop dequeues as this caller)
MainCaller == 0

(***************************************************************************)
(* Texts.                                                                  *)
(***************************************************************************)
\* re.compile(r"(%i1)"): the parentheses are a group, the pattern is %i1
is_max_prompt == <<"%", "i", "1">>

\* what the engine prints when it is ready: "(%i1) "
PromptMsg == <<"(", "%", "i", "1", ")", " ">>
\* a text that begins with the pattern: "%i1"
BareMsg == <<"%", "i", "1">>
\* a chunk that is not valid UTF-8
BadMsg == <<"#ff">>
Msgs == {PromptMsg, BareMsg, BadMsg}

Whitespace == {" "}

\* the text begins with the pattern at position 1
StartsWith(pat, s) ==
    /\ Len(s) >= Len(pat)
    /\ SubSeq(s, 1, Len(pat)) = pat

\* re.Pattern.match: the pattern must match at the beginning of the string
ReMatch(pat, s) == StartsWith(pat, s)

\* re.Pattern.search: the pattern may match at any position
ReSearch(pat, s) ==
    \E i \in 1 .. Len(s) : StartsWith(pat, SubSeq(s, i, Len(s)))

RECURSIVE LStrip(_)
LStrip(s) ==
    IF s # <<>> /\ Head(s) \in Whitespace THEN LStrip(Tail(s)) ELSE s

RECURSIVE RStrip(_)
RStrip(s) ==
    IF s # <<>> /\ s[Len(s)] \in Whitespace
    THEN RStrip(SubSeq(s, 1, Len(s) - 1))
    ELSE s

\* str.strip()
Strip(s) == RStrip(LStrip(s))

\* bytes.decode('utf-8') raises UnicodeDecodeError on an invalid byte
Decodable(data) == \A i \in 1 .. Len(data) : data[i] # "#ff"

\* f"Received: {command}"
_default_handler(command) ==
    <<"R", "e", "c", "e", "i", "v", "e", "d", ":", " ">> \o command

\* the handler passed to __init__: the default, one that returns the command
\* unchanged, one that raises
Handlers == {"default", "echo", "raising"}

HandlerRaises(h) == h = "raising"

Handle(h, command) ==
    IF h = "default" THEN _default_handler(command) ELSE command

(***************************************************************************)
(* Port selection.  port_range is [kind, v, numeric]: an int (v = <<p>>)   *)
(* or a tuple v whose elements are ints when numeric.                      *)
(***************************************************************************)
IntRange(p) == [kind |-> "int", v |-> <<p>>, numeric |-> TRUE]
TupleRange(t) == [kind |-> "tuple", v |-> t, numeric |-> TRUE]

\* (variant: a failed probe skips the next candidate)
RECURSIVE ProbeSkipping(_, _, _, _)
ProbeSkipping(p, hi, taken, probes) ==
    IF p >= hi
    THEN [outcome |-> "exit", error |-> "no_free_ports", port |-> None,
          probes |-> probes]
    ELSE IF p \notin taken
         THEN [outcome |-> "return", error |-> "none", port |-> p,
               probes |-> Append(probes, p)]
         ELSE ProbeSkipping(p + 2, hi, taken, Append(probes, p))

\* for port in range(lo, hi): bind, return the first that binds; the error
\* logged when none does, then exit(2)
RECURSIVE ProbeFrom(_, _, _, _)
ProbeFrom(p, hi, taken, probes) ==
    IF p >= hi
    THEN [outcome |-> "exit", error |-> "no_free_ports", port |-> None,
          probes |-> probes]
    ELSE IF p \notin taken
         THEN [outcome |-> "return", error |-> "none", port |-> p,
               probes |-> Append(probes, p)]
         ELSE ProbeFrom(p + 1, hi, taken, Append(probes, p))

\* (variant: the upper end of a range is probed as well)
SelectInclusive(range, taken) ==
    IF range.kind = "int"
    THEN IF range.v[1] \notin taken
         THEN [outcome |-> "return", error |-> "none", port |-> range.v[1],
               probes |-> <<range.v[1]>>]
         ELSE [outcome |-> "TypeError", error |-> "none", port |-> None,
               probes |-> <<range.v[1]>>]
    ELSE IF Len(range.v) # 2
         THEN [outcome |-> "exit", error |-> "invalid_range", port |-> None,
               probes |-> <<>>]
         ELSE IF range.numeric
              THEN ProbeFrom(range.v[1], range.v[2] + 1, taken, <<>>)
              ELSE [outcome |-> "exit", error |-> "invalid_numeric",
                    port |-> None, probes |-> <<>>]

\* the single-port branch as written: a failed bind formats port_range[0]
\* of an int, which raises TypeError before the error is logged and before
\* exit(2) is reached
_select_free_port(range, taken) ==
    IF range.kind = "int"
    THEN IF range.v[1] \notin taken
         THEN [outcome |-> "return", error |-> "none", port |-> range.v[1],
               probes |-> <<range.v[1]>>]
         ELSE [outcome |-> "TypeError", error |-> "none", port |-> None,
               probes |-> <<range.v[1]>>]
    ELSE IF Len(range.v) # 2
         THEN [outcome |-> "exit", error |-> "invalid_range", port |-> None,
               probes |-> <<>>]
         ELSE IF range.numeric
              THEN ProbeFrom(range.v[1], range.v[2], taken, <<>>)
              ELSE [outcome |-> "exit", error |-> "invalid_numeric",
                    port |-> None, probes |-> <<>>]

(***************************************************************************)
(* State.                                                                  *)
(***************************************************************************)
VARIABLES
    \* constructor arguments
    port_range, handler,
    \* what the environment does in this run: how many calls of
    \* start_instance and of stop the caller makes at most, the peers that
    \* connect, how many chunks each sends at most and which chunks, the
    \* peers that connect only once start_instance has returned, the
    \* consumer threads that run
    scenario,
    \* ports bound by other processes on the host
    busy,
    \* every socket object _create_server_socket has made, in order of
    \* creation: [port, state, backlog]
    socks,
    \* MaximaServer attributes (server_socket is an index of socks,
    \* _server_thread an acceptor thread; None until assigned)
    server_socket, _server_thread, server_running, port,
    maxima_instance, maxima_status, response_queue,
    \* the caller of start_instance / stop: its position, the local
    \* wait_time, how its last call ended, the calls it has made
    pc, wait_time, outcome, starts, stops,
    \* result of the last _select_free_port call
    probe,
    \* acceptor threads (_accept_loop): position and the accepted peer
    apc, accepted,
    \* peers: connection state and the bytes sent but not yet received
    peer, inbox, sent,
    \* client sessions (_handle_client): position and client socket
    spc, client_socket,
    \* consumer threads: position and the list get_all_responses is building
    cpc, results,
    \* history: iterations of the readiness loop in the current
    \* start_instance, envelopes published so far, the dequeues in order with
    \* their caller (and for the readiness loop the call and the iteration),
    \* the envelopes each caller got back, the last two consecutive
    \* get_all_responses calls of each consumer
    polls, published, dequeued, returned, drain,
    \* per session, since the running flag was last cleared: the envelopes
    \* it has put on the queue, and whether it was started after that
    since

vars == <<port_range, handler, scenario, busy, socks, server_socket, _server_thread,
          server_running, port, maxima_instance, maxima_status,
          response_queue, pc, wait_time, outcome, starts, stops, probe,
          apc, accepted, peer, inbox, sent, spc, client_socket, cpc,
          results, polls, published, dequeued, returned, drain, since>>

confVars == <<port_range, handler, scenario>>
serverVars == <<server_socket, _server_thread, server_running, port>>
engineVars == <<maxima_instance, maxima_status>>
callerVars == <<pc, wait_time, outcome, starts, stops, probe>>
acceptVars == <<apc, accepted>>
peerVars == <<peer, inbox, sent>>
sessionVars == <<spc, client_socket>>
consumerVars == <<cpc, results>>
historyVars == <<polls, published, dequeued, returned, drain, since>>
queueHistory == <<polls, published, dequeued, returned, drain>>

NoneSince == [c \in Clients |-> [put |-> 0, born |-> FALSE]]

Acceptors == 1 .. MaxStarts
Callers == {MainCaller} \cup Consumers

NoProbe == [outcome |-> "none", error |-> "none", port |-> None, probes |-> <<>>]
NoDrain == [phase |-> "none", snap |-> <<>>, first |-> <<>>, second |-> <<>>,
            pub |-> FALSE, oth |-> FALSE]

\* ports on which a bind fails: held by another process or by one of this
\* server's own sockets that is still listening
Taken == busy \cup {socks[s].port : s \in {i \in DOMAIN socks : socks[i].state = "listening"}}

\* exit(2) ends the process: the daemon threads end with it
Alive == pc # "exited"

\* MaximaServer.__init__
InitServer ==
    /\ socks = <<>>
    /\ server_socket = None
    /\ _server_thread = None
    /\ server_running = FALSE
    /\ port = None
    /\ maxima_instance = 0
    /\ maxima_status = "None"
    /\ response_queue = <<>>
    /\ pc = "idle"
    /\ wait_time = 0
    /\ outcome = "none"
    /\ starts = 0
    /\ stops = 0
    /\ probe = NoProbe
    /\ apc = [a \in Acceptors |-> "none"]
    /\ accepted = [a \in Acceptors |-> None]
    /\ peer = [c \in Clients |-> "new"]
    /\ inbox = [c \in Clients |-> <<>>]
    /\ sent = [c \in Clients |-> 0]
    /\ spc = [c \in Clients |-> "none"]
    /\ client_socket = [c \in Clients |-> "none"]
    /\ cpc = [k \in Consumers |-> "idle"]
    /\ results = [k \in Consumers |-> <<>>]
    /\ polls = 0
    /\ published = 0
    /\ dequeued = <<>>
    /\ returned = [w \in Callers |-> {}]
    /\ drain = [k \in Consumers |-> NoDrain]
    /\ since = NoneSince

Scenario(st, sp, pe, sn, ms, la, co) ==
    [starts |-> st, stops |-> sp, peers |-> pe, sends |-> sn, msgs |-> ms,
     late |-> la, consumers |-> co]

\* peer c sends at most n[c] chunks; peers beyond Len(n) send none
Sends(n) == [c \in Clients |-> IF c <= Len(n) THEN n[c] ELSE 0]

(***************************************************************************)
(* The response queue (queue.Queue) and the history of its use.            *)
(***************************************************************************)
InWindow(k) == drain[k].phase \in {"first", "between", "second"}

\* (variant: the item goes to the front, as in a LifoQueue)
PutFront(item) ==
    /\ response_queue' = <<item>> \o response_queue
    /\ published' = published + 1
    /\ drain' = [k \in Consumers |->
                    IF InWindow(k) THEN [drain[k] EXCEPT !.pub = TRUE]
                    ELSE drain[k]]

\* (variant: the item takes the place of what the queue held)
PutOver(item) ==
    /\ response_queue' = <<item>>
    /\ published' = published + 1
    /\ drain' = [k \in Consumers |->
                    IF InWindow(k) THEN [drain[k] EXCEPT !.pub = TRUE]
                    ELSE drain[k]]

\* response_queue.put(item)
Put(item) ==
    /\ response_queue' = Append(response_queue, item)
    /\ published' = published + 1
    /\ drain' = [k \in Consumers |->
                    IF InWindow(k) THEN [drain[k] EXCEPT !.pub = TRUE]
                    ELSE drain[k]]

\* (variant: the head is read but stays in the queue)
Peek(q) == [item |-> Head(q), rest |-> q]

\* Queue.get on a non-empty queue: the item it returns and what it leaves
Deq(q) == [item |-> Head(q), rest |-> Tail(q)]

\* response_queue.get(...) of a non-empty queue by caller who
Get(who) ==
    /\ response_queue # <<>>
    /\ response_queue' = Deq(response_queue).rest
    /\ dequeued' = Append(dequeued,
                           [env |-> Deq(response_queue).item, by |-> who,
                            call |-> IF who = MainCaller THEN starts ELSE 0,
                            cycle |-> IF who = MainCaller THEN polls + 1 ELSE 0])

\* the consecutive get_all_responses calls of the consumers other than who
\* see a dequeue that is not theirs
OtherDequeued(who, d) ==
    [k \in Consumers |->
        IF k # who /\ InWindow(k) THEN [d[k] EXCEPT !.oth = TRUE] ELSE d[k]]

(***************************************************************************)
(* Sockets.                                                                *)
(***************************************************************************)
\* socket.close() of a listening socket: the connections still in its
\* backlog are reset
Closed(s) == [socks EXCEPT ![s].state = "closed", ![s].backlog = <<>>]

InBacklog(s) == {socks[s].backlog[i] : i \in DOMAIN socks[s].backlog}

Dropped(s) ==
    [c \in Clients |-> IF c \in InBacklog(s) THEN "reset" ELSE peer[c]]

(***************************************************************************)
(* start_instance, on the caller's thread.                                 *)
(***************************************************************************)
\* _create_server_socket, line 196: self.port = self._select_free_port(...)
SelectPort ==
    /\ pc = "idle"
    /\ starts < scenario.starts
    /\ starts' = starts + 1
    /\ probe' = _select_free_port(port_range, Taken)
    /\ IF probe'.outcome = "return"
       THEN /\ port' = probe'.port
            /\ pc' = "bind"
            /\ outcome' = "running"
       ELSE /\ port' = port
            /\ pc' = IF probe'.outcome = "exit" THEN "exited" ELSE "idle"
            /\ outcome' = IF probe'.outcome = "exit"
                          THEN "exit_" \o probe'.error
                          ELSE probe'.outcome
    /\ UNCHANGED <<confVars, busy, socks, server_socket, _server_thread,
                   server_running, engineVars, response_queue, wait_time,
                   stops, acceptVars, peerVars, sessionVars, consumerVars,
                   historyVars>>

\* another process binds a port between the probe and the real bind
OtherProcessBinds ==
    /\ pc = "bind"
    /\ \E p \in Ports :
          /\ p \notin Taken
          /\ busy' = busy \cup {p}
    /\ UNCHANGED <<confVars, socks, serverVars, engineVars, response_queue,
                   callerVars, acceptVars, peerVars, sessionVars,
                   consumerVars, historyVars>>

\* _create_server_socket, lines 197-205: a new socket object replaces
\* self.server_socket; bind raises OSError when the port has been taken
\* since the probe; otherwise listen, set the flag, start the acceptor
BindAndListen ==
    /\ pc = "bind"
    /\ server_socket' = Len(socks) + 1
    /\ IF port \in Taken
       THEN /\ socks' = Append(socks, [port |-> None, state |-> "unbound",
                                       backlog |-> <<>>])
            /\ pc' = "idle"
            /\ outcome' = "OSError"
            /\ UNCHANGED <<server_running, _server_thread, apc>>
       ELSE /\ socks' = Append(socks, [port |-> port, state |-> "listening",
                                       backlog |-> <<>>])
            /\ server_running' = TRUE
            /\ _server_thread' = starts
            /\ apc' = [apc EXCEPT ![starts] = "check"]
            /\ pc' = "launch"
            /\ outcome' = outcome
    /\ UNCHANGED <<confVars, busy, port, engineVars, response_queue,
                   wait_time, starts, stops, probe, accepted, peerVars,
                   sessionVars, consumerVars, historyVars>>

\* lines 218-221: the engine subprocess is created, status INIT, wait_time 0
LaunchMaxima ==
    /\ pc = "launch"
    /\ maxima_instance' = maxima_instance + 1
    /\ maxima_status' = "INIT"
    /\ wait_time' = 0
    /\ polls' = 0
    /\ pc' = "poll"
    /\ UNCHANGED <<confVars, busy, socks, serverVars, response_queue,
                   outcome, starts, stops, probe, acceptVars, peerVars,
                   sessionVars, consumerVars, published, since, dequeued, returned,
                   drain>>

\* one iteration of the readiness loop, lines 222-237
PollStatus(got, env) ==
    IF got /\ ReMatch(is_max_prompt, env.response) THEN "READY"
    ELSE maxima_status

\* (variant: the counter counts only the polls that got nothing)
NextWaitWhenEmpty(got) == IF got THEN wait_time ELSE wait_time + 1

\* line 234: wait_time += 1
NextWait(got) == wait_time + 1

\* line 235: if wait_time > 10
TimedOut(w) == w > WaitCycles

Poll ==
    /\ pc = "poll"
    /\ LET got == response_queue # <<>>
           env == Deq(response_queue).item
       IN /\ IF got
             THEN /\ Get(MainCaller)
                  /\ returned' = [returned EXCEPT ![MainCaller] = @ \cup {env.id}]
                  /\ drain' = OtherDequeued(MainCaller, drain)
             ELSE UNCHANGED <<response_queue, dequeued, returned, drain>>
          /\ maxima_status' = PollStatus(got, env)
          /\ wait_time' = NextWait(got)
          /\ IF TimedOut(wait_time')
             THEN pc' = "exited" /\ outcome' = "exit_not_ready"
             ELSE IF maxima_status' = "READY"
                  THEN pc' = "idle" /\ outcome' = "started"
                  ELSE pc' = "poll" /\ outcome' = outcome
    /\ polls' = polls + 1
    /\ UNCHANGED <<confVars, busy, socks, serverVars, maxima_instance,
                   starts, stops, probe, acceptVars, peerVars, sessionVars,
                   consumerVars, published, since>>

(***************************************************************************)
(* stop, on the caller's thread.                                           *)
(***************************************************************************)
\* line 188
StopClearFlag ==
    /\ pc = "idle"
    /\ stops < scenario.stops
    /\ stops' = stops + 1
    /\ server_running' = FALSE
    /\ since' = NoneSince
    /\ pc' = "stop_close"
    /\ outcome' = "running"
    /\ UNCHANGED <<confVars, busy, socks, server_socket, _server_thread,
                   port, engineVars, response_queue, wait_time, starts,
                   probe, acceptVars, peerVars, sessionVars, consumerVars,
                   queueHistory>>

\* (variant: closing the socket discards the queued envelopes)
StopDiscarding ==
    /\ pc = "stop_close"
    /\ IF server_socket # None
       THEN /\ socks' = Closed(server_socket)
            /\ peer' = Dropped(server_socket)
       ELSE UNCHANGED <<socks, peer>>
    /\ pc' = "stop_join"
    /\ response_queue' = <<>>
    /\ UNCHANGED <<confVars, busy, serverVars, engineVars,
                   wait_time, outcome, starts, stops, probe, acceptVars,
                   inbox, sent, sessionVars, consumerVars, historyVars>>

\* lines 189-190
StopCloseSocket ==
    /\ pc = "stop_close"
    /\ IF server_socket # None
       THEN /\ socks' = Closed(server_socket)
            /\ peer' = Dropped(server_socket)
       ELSE UNCHANGED <<socks, peer>>
    /\ pc' = "stop_join"
    /\ UNCHANGED <<confVars, busy, serverVars, engineVars, response_queue,
                   wait_time, outcome, starts, stops, probe, acceptVars,
                   inbox, sent, sessionVars, consumerVars, historyVars>>

\* lines 191-193: __init__ defines server_thread, not _server_thread, so the
\* attribute exists only once _create_server_socket has assigned it.  The
\* join waits up to 2.0 s for an acceptor whose accept times out after 1.0 s:
\* it returns when that thread has ended
StopJoin ==
    /\ pc = "stop_join"
    /\ IF _server_thread = None
       THEN outcome' = "AttributeError"
       ELSE /\ apc[_server_thread] = "done"
            /\ outcome' = "stopped"
    /\ pc' = "idle"
    /\ UNCHANGED <<confVars, busy, socks, serverVars, engineVars,
                   response_queue, wait_time, starts, stops, probe,
                   acceptVars, peerVars, sessionVars, consumerVars,
                   historyVars>>


(***************************************************************************)
(* _accept_loop, one thread per successful _create_server_socket.          *)
(***************************************************************************)
\* (variant: the loop does not test the flag)
AcceptUnchecked(a) ==
    /\ Alive
    /\ apc[a] = "check"
    /\ apc' = [apc EXCEPT ![a] = "accept"]
    /\ UNCHANGED <<confVars, busy, socks, serverVars, engineVars,
                   response_queue, callerVars, accepted, peerVars,
                   sessionVars, consumerVars, historyVars>>

\* line 148: while self.server_running
AcceptCheck(a) ==
    /\ Alive
    /\ apc[a] = "check"
    /\ apc' = [apc EXCEPT ![a] = IF server_running THEN "accept" ELSE "done"]
    /\ UNCHANGED <<confVars, busy, socks, serverVars, engineVars,
                   response_queue, callerVars, accepted, peerVars,
                   sessionVars, consumerVars, historyVars>>

\* line 150: accept on whatever self.server_socket is now.  A listening
\* socket yields the head of its backlog or times out; a socket that is
\* closed or was never bound raises OSError (or, closed while the call was
\* waiting, the call times out)
Accept(a) ==
    /\ Alive
    /\ apc[a] = "accept"
    /\ LET s == server_socket
       IN \/ /\ socks[s].state = "listening"
             /\ socks[s].backlog # <<>>
             /\ accepted' = [accepted EXCEPT ![a] = Head(socks[s].backlog)]
             /\ socks' = [socks EXCEPT ![s].backlog = Tail(@)]
             /\ client_socket' =
                    [client_socket EXCEPT ![Head(socks[s].backlog)] = "open"]
             /\ apc' = [apc EXCEPT ![a] = "spawn"]
          \/ /\ socks[s].state = "listening"
             /\ socks[s].backlog = <<>>
             /\ apc' = [apc EXCEPT ![a] = "check"]
             /\ UNCHANGED <<accepted, socks, client_socket>>
          \/ /\ socks[s].state # "listening"
             /\ apc' = [apc EXCEPT ![a] = "done"]
             /\ UNCHANGED <<accepted, socks, client_socket>>
          \/ /\ socks[s].state = "closed"
             /\ apc' = [apc EXCEPT ![a] = "check"]
             /\ UNCHANGED <<accepted, socks, client_socket>>
    /\ UNCHANGED <<confVars, busy, serverVars, engineVars, response_queue,
                   callerVars, peerVars, spc, consumerVars, historyVars>>

\* lines 151-157: the session thread is started (and appended to _clients)
AcceptSpawn(a) ==
    /\ Alive
    /\ apc[a] = "spawn"
    /\ spc' = [spc EXCEPT ![accepted[a]] = "check"]
    /\ accepted' = [accepted EXCEPT ![a] = None]
    /\ apc' = [apc EXCEPT ![a] = "check"]
    /\ since' = [since EXCEPT ![accepted[a]].born = ~server_running]
    /\ UNCHANGED <<confVars, busy, socks, serverVars, engineVars,
                   response_queue, callerVars, peerVars, client_socket,
                   consumerVars, queueHistory>>

\* a socket object that self.server_socket no longer refers to is closed
\* when the interpreter finalizes it
Finalize(s) ==
    /\ Alive
    /\ s \in DOMAIN socks
    /\ s # server_socket
    /\ socks[s].state # "closed"
    /\ socks' = Closed(s)
    /\ peer' = Dropped(s)
    /\ UNCHANGED <<confVars, busy, serverVars, engineVars, response_queue,
                   callerVars, acceptVars, inbox, sent, sessionVars,
                   consumerVars, historyVars>>

(***************************************************************************)
(* Peers: the engine or any other TCP client.                              *)
(***************************************************************************)
Pending(c) == \E s \in DOMAIN socks : c \in InBacklog(s)
Connected(c) == Pending(c) \/ client_socket[c] = "open"

Connect(c) ==
    /\ Alive
    /\ c \in scenario.peers
    /\ c \in scenario.late => pc = "idle" /\ outcome = "started"
    /\ peer[c] = "new"
    /\ \E s \in DOMAIN socks :
          /\ socks[s].state = "listening"
          /\ socks' = [socks EXCEPT ![s].backlog = Append(@, c)]
    /\ peer' = [peer EXCEPT ![c] = "open"]
    /\ UNCHANGED <<confVars, busy, serverVars, engineVars, response_queue,
                   callerVars, acceptVars, inbox, sent, sessionVars,
                   consumerVars, historyVars>>

\* the bytes of successive sends queue up in the connection: one recv of up
\* to 4096 bytes takes them all
Send(c, m) ==
    /\ Alive
    /\ peer[c] = "open"
    /\ Connected(c)
    /\ sent[c] < scenario.sends[c]
    /\ m \in scenario.msgs
    /\ sent' = [sent EXCEPT ![c] = @ + 1]
    /\ inbox' = [inbox EXCEPT ![c] = @ \o m]
    /\ UNCHANGED <<confVars, busy, socks, serverVars, engineVars,
                   response_queue, callerVars, acceptVars, peer,
                   sessionVars, consumerVars, historyVars>>

PeerCloses(c) ==
    /\ Alive
    /\ peer[c] = "open"
    /\ Connected(c)
    /\ peer' = [peer EXCEPT ![c] = "closed"]
    /\ UNCHANGED <<confVars, busy, socks, serverVars, engineVars,
                   response_queue, callerVars, acceptVars, inbox, sent,
                   sessionVars, consumerVars, historyVars>>

PeerResets(c) ==
    /\ Alive
    /\ peer[c] = "open"
    /\ client_socket[c] = "open"
    /\ peer' = [peer EXCEPT ![c] = "reset"]
    /\ UNCHANGED <<confVars, busy, socks, serverVars, engineVars,
                   response_queue, callerVars, acceptVars, inbox, sent,
                   sessionVars, consumerVars, historyVars>>

(***************************************************************************)
(* _handle_client, one thread per accepted connection.                     *)
(***************************************************************************)
\* (variant: the loop does not test the flag)
SessionUnchecked(c) ==
    /\ Alive
    /\ spc[c] = "check"
    /\ spc' = [spc EXCEPT ![c] = "recv"]
    /\ UNCHANGED <<confVars, busy, socks, serverVars, engineVars,
                   response_queue, callerVars, acceptVars, peerVars,
                   client_socket, consumerVars, historyVars>>

\* line 116: while self.server_running; line 143 when it is false
SessionCheck(c) ==
    /\ Alive
    /\ spc[c] = "check"
    /\ IF server_running
       THEN /\ spc' = [spc EXCEPT ![c] = "recv"]
            /\ UNCHANGED client_socket
       ELSE /\ spc' = [spc EXCEPT ![c] = "done"]
            /\ client_socket' = [client_socket EXCEPT ![c] = "closed"]
    /\ UNCHANGED <<confVars, busy, socks, serverVars, engineVars,
                   response_queue, callerVars, acceptVars, peerVars,
                   consumerVars, historyVars>>

\* the envelope put on the queue, lines 129-133 (id: which dict object)
Envelope(c, command) ==
    [address |-> c, command |-> command,
     response |-> Handle(handler, command), id |-> published + 1]

\* (variant: the reset of one connection ends every session)
InterruptsAll(c) == [d \in Clients |-> IF spc[d] = "none" THEN "none" ELSE "done"]

\* lines 138-139: except (ConnectionResetError, BrokenPipeError): break
ConnectionInterrupted(c) == [spc EXCEPT ![c] = "done"]

\* lines 118-141: one recv and what follows it
SessionRecv(c) ==
    /\ Alive
    /\ spc[c] = "recv"
    /\ IF peer[c] = "reset"
       THEN \* ConnectionResetError: break, close
            /\ spc' = ConnectionInterrupted(c)
            /\ client_socket' = [client_socket EXCEPT ![c] = "closed"]
            /\ UNCHANGED <<inbox, response_queue, published, drain>>
       ELSE IF inbox[c] # <<>>
       THEN /\ inbox' = [inbox EXCEPT ![c] = <<>>]
            /\ IF ~Decodable(inbox[c]) \/ HandlerRaises(handler)
               THEN \* UnicodeDecodeError or the handler's exception is
                    \* caught by no except clause: the thread ends there
                    /\ spc' = [spc EXCEPT ![c] = "died"]
                    /\ UNCHANGED <<client_socket, response_queue, published,
                                   drain>>
               ELSE /\ Put(Envelope(c, Strip(inbox[c])))
                    /\ spc' = [spc EXCEPT ![c] = "check"]
                    /\ UNCHANGED client_socket
       ELSE IF peer[c] = "closed"
       THEN \* empty read: break, close
            /\ spc' = [spc EXCEPT ![c] = "done"]
            /\ client_socket' = [client_socket EXCEPT ![c] = "closed"]
            /\ UNCHANGED <<inbox, response_queue, published, drain>>
       ELSE \* socket.timeout: continue
            /\ spc' = [spc EXCEPT ![c] = "check"]
            /\ UNCHANGED <<client_socket, inbox, response_queue, published,
                           drain>>
    /\ since' = IF published' # published
                THEN [since EXCEPT ![c].put = @ + 1]
                ELSE since
    /\ UNCHANGED <<confVars, busy, socks, serverVars, engineVars,
                   callerVars, acceptVars, peer, sent, consumerVars, polls,
                   dequeued, returned>>

(***************************************************************************)
(* get_response and get_all_responses, on consumer threads.                *)
(***************************************************************************)
Ids(q) == {q[i].id : i \in DOMAIN q}

\* one get_response call: the head of the queue, or None when it is empty
GetResponse(k) ==
    /\ Alive
    /\ k \in scenario.consumers
    /\ cpc[k] = "idle"
    /\ LET own == [drain EXCEPT ![k] = IF InWindow(k) THEN NoDrain ELSE @]
       IN IF response_queue # <<>>
          THEN /\ Get(k)
               /\ returned' = [returned EXCEPT ![k] = @ \cup {Deq(response_queue).item.id}]
               /\ drain' = OtherDequeued(k, own)
          ELSE /\ drain' = own
               /\ UNCHANGED <<response_queue, dequeued, returned>>
    /\ UNCHANGED <<confVars, busy, socks, serverVars, engineVars,
                   callerVars, acceptVars, peerVars, sessionVars,
                   consumerVars, polls, published, since>>

\* the history of consecutive get_all_responses calls: a call begins
Begun(k) ==
    IF drain[k].phase = "between"
    THEN [drain[k] EXCEPT !.phase = "second"]
    ELSE [NoDrain EXCEPT !.phase = "first", !.snap = response_queue]

\* ... and returns res
Ended(d, res) ==
    IF d.phase = "first"
    THEN [d EXCEPT !.phase = "between", !.first = res]
    ELSE [d EXCEPT !.phase = "done", !.second = res]

\* (variant: the first item is not in the list returned)
AllButFirst(res) == IF res = <<>> THEN res ELSE Tail(res)

\* what get_all_responses returns once get_response has returned None
AllResults(res) == res

\* one iteration of the loop of get_all_responses (the first one begins the
\* call): an item is appended to results, or None ends the call
GetAllResponses(k) ==
    /\ Alive
    /\ k \in scenario.consumers
    /\ LET res == IF cpc[k] = "idle" THEN <<>> ELSE results[k]
           d == IF cpc[k] = "idle" THEN Begun(k) ELSE drain[k]
       IN IF response_queue # <<>>
          THEN /\ Get(k)
               /\ results' = [results EXCEPT ![k] = Append(res, Deq(response_queue).item)]
               /\ cpc' = [cpc EXCEPT ![k] = "draining"]
               /\ drain' = OtherDequeued(k, [drain EXCEPT ![k] = d])
               /\ UNCHANGED returned
          ELSE /\ results' = [results EXCEPT ![k] = <<>>]
               /\ cpc' = [cpc EXCEPT ![k] = "idle"]
               /\ returned' = [returned EXCEPT ![k] = @ \cup Ids(AllResults(res))]
               /\ drain' = [drain EXCEPT ![k] = Ended(d, AllResults(res))]
               /\ UNCHANGED <<response_queue, dequeued>>
    /\ UNCHANGED <<confVars, busy, socks, serverVars, engineVars,
                   callerVars, acceptVars, peerVars, sessionVars, polls,
                   published, since>>


(***************************************************************************)
(* Specifications.  Each starts from a freshly constructed MaximaServer    *)
(* and runs the threads that take part in one kind of scenario.            *)
(***************************************************************************)
\* the acceptor and session threads
Serve ==
    \/ \E a \in Acceptors : AcceptCheck(a)
    \/ \E a \in Acceptors : Accept(a)
    \/ \E a \in Acceptors : AcceptSpawn(a)
    \/ \E c \in Clients : SessionCheck(c)
    \/ \E c \in Clients : SessionRecv(c)

\* start_instance up to the end of the readiness loop
Start ==
    \/ SelectPort
    \/ BindAndListen
    \/ LaunchMaxima
    \/ Poll

\* stop
Stop ==
    \/ StopClearFlag
    \/ StopCloseSocket
    \/ StopJoin

(***************************************************************************)
(* SpecPort: _select_free_port on every port_range over the ports          *)
(* 0 .. MaxPort, with every set of ports held by other processes.          *)
(***************************************************************************)
PortRanges ==
    {IntRange(p) : p \in Ports}
    \cup {TupleRange(<<lo, hi>>) : lo \in 0 .. MaxPort + 1, hi \in 0 .. MaxPort + 1}
    \cup {TupleRange(<<0>>), TupleRange(<<0, 1, 2>>),
          [kind |-> "tuple", v |-> <<0, 1>>, numeric |-> FALSE]}

NoPeers == Scenario(1, 0, {}, Sends(<<>>), {}, {}, {})

InitPort ==
    /\ port_range \in PortRanges
    /\ handler = "default"
    /\ busy \in SUBSET Ports
    /\ scenario = NoPeers
    /\ InitServer

NextPort == SelectPort

SpecPort == InitPort /\ [][NextPort]_vars

\* the ports of [lo, hi) that a probe can bind
FreeIn(lo, hi) == {q \in Ports : lo <= q /\ q < hi /\ q \notin busy}

Least(S) == CHOOSE q \in S : \A r \in S : q <= r

IsPair == port_range.kind = "tuple" /\ Len(port_range.v) = 2 /\ port_range.numeric

\* _select_free_port has run
Selected == starts = 1

C9_SinglePort ==
    (Selected /\ port_range.kind = "int") =>
        /\ Len(probe.probes) = 1
        /\ port_range.v[1] \notin busy =>
              probe.outcome = "return" /\ probe.port = port_range.v[1]
        /\ port_range.v[1] \in busy => probe.outcome = "exit"


(***************************************************************************)
(* SpecReady: start_instance with the engine as the only peer; the engine  *)
(* sends its prompt, or a text that begins with the pattern, or hangs up.  *)
(***************************************************************************)
InitReady ==
    /\ port_range = TupleRange(<<0, 2>>)
    /\ handler \in {"default", "echo"}
    /\ busy = {}
    /\ scenario = Scenario(ReadyStarts, 0, {1}, Sends(<<ReadySends>>),
                           {PromptMsg, BareMsg}, {}, {})
    /\ InitServer

NextReady ==
    \/ Start
    \/ Serve
    \/ \E c \in Clients : Connect(c)
    \/ \E c \in Clients, m \in Msgs : Send(c, m)
    \/ \E c \in Clients : PeerCloses(c)
    \/ \E c \in Clients : PeerResets(c)

SpecReady == InitReady /\ [][NextReady]_vars

\* the readiness loop of the current start_instance has dequeued, in one of
\* its first n iterations, an envelope whose response the pattern matches
MatchedBy(n) ==
    \E i \in DOMAIN dequeued :
        /\ dequeued[i].by = MainCaller
        /\ dequeued[i].call = starts
        /\ dequeued[i].cycle <= n
        /\ ReMatch(is_max_prompt, dequeued[i].env.response)

\* C1 as amended: the loop ends with READY (start_instance returns) exactly
\* when a matching envelope is dequeued in one of the first WaitCycles
\* iterations; otherwise it fails (exit(2)) right after iteration
\* WaitCycles + 1; the counter counts every iteration
C1_Readiness ==
    /\ pc = "poll" =>
          /\ wait_time = polls
          /\ polls <= WaitCycles
          /\ maxima_status = "INIT"
          /\ ~MatchedBy(polls)
    /\ (pc = "idle" /\ outcome = "started") =>
          /\ wait_time = polls
          /\ polls <= WaitCycles
          /\ maxima_status = "READY"
          /\ MatchedBy(polls) /\ ~MatchedBy(polls - 1)
    /\ outcome = "exit_not_ready" =>
          /\ wait_time = polls
          /\ polls = WaitCycles + 1
          /\ ~MatchedBy(WaitCycles)

\* the loop fails although envelopes arrived: they did not match
C1_Witness ==
    /\ outcome = "exit_not_ready"
    /\ \E i \in DOMAIN dequeued : dequeued[i].by = MainCaller

\* C1 as claimed: READY if and only if a matching envelope is dequeued
\* within the budget, otherwise failure after exactly WaitCycles iterations,
\* the counter counting every iteration
C1_Original ==
    (outcome \in {"started", "exit_not_ready"}) =>
        /\ wait_time = polls
        /\ maxima_status = "READY" <=> MatchedBy(WaitCycles)
        /\ outcome = "exit_not_ready" => polls = WaitCycles

\* C2: with the default handler, the poll that dequeues the envelope of a
\* text containing the marker anywhere leaves the status READY
C2_MarkerAnywhere ==
    \A i \in DOMAIN dequeued :
        (/\ handler = "default"
         /\ dequeued[i].by = MainCaller
         /\ dequeued[i].call = starts
         /\ ReSearch(is_max_prompt, dequeued[i].env.command))
        => maxima_status = "READY"


(***************************************************************************)
(* SpecQueue: two peers send while the readiness loop and a consumer       *)
(* thread dequeue.                                                         *)
(***************************************************************************)
InitQueue ==
    /\ port_range = TupleRange(<<0, 2>>)
    /\ handler = "echo"
    /\ busy = {}
    /\ scenario = Scenario(1, 0, {1, 2}, Sends(<<QueueSends, 1>>),
                           {BareMsg}, {}, {1})
    /\ InitServer

NextQueue ==
    \/ Start
    \/ Serve
    \/ \E c \in Clients : Connect(c)
    \/ \E c \in Clients, m \in Msgs : Send(c, m)
    \/ \E k \in Consumers : GetResponse(k)
    \/ \E k \in Consumers : GetAllResponses(k)

SpecQueue == InitQueue /\ [][NextQueue]_vars

\* C3: the envelopes of one session (one peer address) are dequeued in the
\* order the session published them (id counts the publications), whoever
\* dequeues them
C3_SessionFifo ==
    \A i, j \in DOMAIN dequeued :
        (i < j /\ dequeued[i].env.address = dequeued[j].env.address)
        => dequeued[i].env.id < dequeued[j].env.id

\* two envelopes of one session went to different callers, with an envelope
\* of the other session dequeued as well
C3_Witness ==
    \E i, j, m \in DOMAIN dequeued :
        /\ i < j
        /\ dequeued[i].env.address = dequeued[j].env.address
        /\ dequeued[i].by # dequeued[j].by
        /\ dequeued[m].env.address # dequeued[i].env.address

\* the envelopes that left the queue, in order, after those still in it
Handled == response_queue \o [i \in DOMAIN dequeued |-> dequeued[i].env]

\* caller w holds envelope id: a call returned it to w, or w's running
\* get_all_responses has it in its list
Holds(w, id) ==
    \/ id \in returned[w]
    \/ w \in Consumers /\ id \in Ids(results[w])

\* C4: every envelope put on the queue is in the queue or was dequeued
\* once, and a dequeued envelope goes to the caller that dequeued it and to
\* no other
C4_ExactlyOnce ==
    /\ Ids(Handled) = 1 .. published
    /\ \A i, j \in DOMAIN Handled : i # j => Handled[i].id # Handled[j].id
    /\ \A i \in DOMAIN dequeued :
          \A w \in Callers :
              Holds(w, dequeued[i].env.id) <=> w = dequeued[i].by
    /\ \A w \in Callers : returned[w] \subseteq Ids(Handled)

\* the readiness loop and the consumer have both dequeued, the consumer
\* through a get_all_responses call that has returned
C4_Witness ==
    /\ \E i, j \in DOMAIN dequeued :
          dequeued[i].by = MainCaller /\ dequeued[j].by # MainCaller
    /\ \E k \in Consumers :
          drain[k].phase = "between" /\ drain[k].first # <<>>
    /\ response_queue # <<>>

\* two consecutive get_all_responses calls of consumer k are over, the
\* queue was not empty when the first began and no session published since
TwoDrains(k) ==
    /\ drain[k].phase = "done"
    /\ drain[k].snap # <<>>
    /\ ~drain[k].pub

\* C5 as amended: ... and no other caller dequeued in between; then the
\* first call returned every envelope that was queued and the second
\* returned the empty list
C5_TwoDrains ==
    \A k \in Consumers :
        (TwoDrains(k) /\ ~drain[k].oth) =>
            /\ drain[k].first # <<>>
            /\ drain[k].first = drain[k].snap
            /\ drain[k].second = <<>>

C5_Witness ==
    \E k \in Consumers :
        TwoDrains(k) /\ ~drain[k].oth /\ Len(drain[k].snap) >= 2

\* C5 as claimed
C5_Original ==
    \A k \in Consumers :
        TwoDrains(k) =>
            /\ drain[k].first # <<>>
            /\ drain[k].first = drain[k].snap
            /\ drain[k].second = <<>>


(***************************************************************************)
(* SpecStop: start_instance and stop called in any order; the engine       *)
(* answers each start with a text the pattern matches, a second peer       *)
(* connects at any time.                                                   *)
(***************************************************************************)
InitStop ==
    /\ port_range = TupleRange(<<0, 2>>)
    /\ handler = "echo"
    /\ busy = {}
    /\ scenario = Scenario(StopStarts, StopStops, {1, 2}, Sends(<<StopSends, 0>>),
                           {BareMsg}, {}, {})
    /\ InitServer

NextStop ==
    \/ Start
    \/ Stop
    \/ Serve
    \/ \E s \in 1 .. MaxStarts : Finalize(s)
    \/ \E c \in Clients : Connect(c)
    \/ \E c \in Clients, m \in Msgs : Send(c, m)

SpecStop == InitStop /\ [][NextStop]_vars

\* stop() has returned and no further call has begun
Stopped == pc = "idle" /\ outcome = "stopped"

\* C6: on a started server stop() does not raise, the second call no more
\* than the first, and once stop() has returned no connection is accepted
\* and no session is spawned
C6_StopIdempotent ==
    /\ [](outcome = "AttributeError" => _server_thread = None)
    /\ [][(Stopped /\ Stopped') =>
            \A c \in Clients :
                /\ client_socket[c] = "none" => client_socket'[c] = "none"
                /\ spc[c] = "none" => spc'[c] = "none"]_vars


(***************************************************************************)
(* SpecTwo: the engine answers start_instance; once the server runs, two   *)
(* clients connect, send one command each and may hang up; a consumer      *)
(* calls get_all_responses after both commands were handled.  The threads  *)
(* of the server are scheduled fairly.                                     *)
(***************************************************************************)
InitTwo ==
    /\ port_range = TupleRange(<<0, 2>>)
    /\ handler = "echo"
    /\ busy = {}
    /\ scenario = Scenario(1, 0, {1, 2, 3}, Sends(<<1, 1, 1>>),
                           {PromptMsg, BareMsg}, {2, 3}, {1})
    /\ InitServer

\* the two clients
Two == scenario.late

\* the envelopes of the two clients that are in the queue
Queued == {i \in DOMAIN response_queue : response_queue[i].address \in Two}

\* the queue holds exactly two envelopes, one with each client's address
TwoQueued ==
    /\ Len(response_queue) = 2
    /\ {response_queue[i].address : i \in DOMAIN response_queue} = Two

\* the consumer waits for both commands to be handled, then calls
\* get_all_responses
Awaited(k) == cpc[k] = "draining" \/ (drain[k].phase = "none" /\ TwoQueued)

NextTwo ==
    \/ Start
    \/ Serve
    \/ \E c \in Clients : Connect(c)
    \/ \E c \in Clients, m \in Msgs : Send(c, m)
    \/ \E c \in Clients : PeerCloses(c)
    \/ \E k \in Consumers : Awaited(k) /\ GetAllResponses(k)

\* every thread of the process that can run gets to run
Scheduling ==
    /\ WF_vars(Start)
    /\ \A a \in Acceptors :
          WF_vars(AcceptCheck(a)) /\ WF_vars(Accept(a)) /\ WF_vars(AcceptSpawn(a))
    /\ \A c \in Clients : WF_vars(SessionCheck(c)) /\ WF_vars(SessionRecv(c))
    /\ \A k \in Consumers : WF_vars(Awaited(k) /\ GetAllResponses(k))

SpecTwo == InitTwo /\ [][NextTwo]_vars /\ Scheduling

\* both clients have sent their command, get_all_responses is yet to be
\* called
BothSent ==
    /\ \A c \in Two : sent[c] = 1
    /\ \A k \in Consumers : drain[k].phase = "none" /\ cpc[k] = "idle"

\* a get_all_responses call has returned two envelopes, one with each
\* client's address, each with the command that client sent
ReturnedBoth ==
    \E k \in Consumers :
        /\ drain[k].phase \in {"between", "done"}
        /\ Len(drain[k].first) = 2
        /\ {drain[k].first[i].address : i \in 1 .. 2} = Two
        /\ drain[k].first = drain[k].snap

\* C7: two clients connect to the running server and send one command
\* each: whatever the interleaving, the queue eventually holds exactly two
\* envelopes, one with each client's address, and get_all_responses then
\* returns exactly those two; no envelope is lost, overwritten or doubled
C7_TwoClients ==
    /\ BothSent ~> TwoQueued
    /\ TwoQueued ~> ReturnedBoth
    /\ [](\A c \in Two :
             Cardinality({i \in DOMAIN Handled : Handled[i].address = c}) <= 1)
    /\ [](\A i \in DOMAIN Handled :
             Handled[i].address \in Two =>
                 Handled[i].command \in {Strip(PromptMsg), Strip(BareMsg)})

\* the client that connected second was served first, and both envelopes
\* came back from one get_all_responses call
C7_Witness ==
    /\ ReturnedBoth
    /\ \E k \in Consumers :
          /\ drain[k].first[1].address = 3
          /\ drain[k].first[1].command # drain[k].first[2].command
    /\ socks[server_socket].backlog = <<>>
    /\ accepted[_server_thread] = None


(***************************************************************************)
(* SpecStart: start_instance on ranges with and without a free port, on a  *)
(* server that is new, running or stopped, other processes holding some    *)
(* of the ports; the engine answers with a text the pattern matches.       *)
(***************************************************************************)
InitStart ==
    /\ port_range \in {TupleRange(<<0, 1>>), TupleRange(<<1, 1>>),
                       TupleRange(<<0, 2>>), IntRange(0)}
    /\ handler = "echo"
    /\ busy \in SUBSET (0 .. 1)
    /\ scenario = Scenario(StartStarts, StartStops, {1}, Sends(<<StartSends>>),
                           {BareMsg}, {}, {})
    /\ InitServer

NextStart ==
    \/ Start
    \/ Stop
    \/ Serve
    \/ \E s \in 1 .. MaxStarts : Finalize(s)
    \/ \E c \in Clients : Connect(c)
    \/ \E c \in Clients, m \in Msgs : Send(c, m)

SpecStart == InitStart /\ [][NextStart]_vars

\* no port of the range [lo, hi) can be bound now
ZeroFree ==
    /\ IsPair
    /\ \A q \in Ports :
          (port_range.v[1] <= q /\ q < port_range.v[2]) => q \in Taken

Listening == {s \in DOMAIN socks : socks[s].state = "listening"}
Accepting == {a \in Acceptors : apc[a] \notin {"none", "done"}}

\* start_instance is called: _create_server_socket selects the port
Called == pc = "idle" /\ starts' = starts + 1

InitAbort ==
    /\ port_range \in {TupleRange(<<0, 2>>), IntRange(0)}
    /\ handler \in {"default", "echo"}
    /\ busy = {}
    /\ scenario = Scenario(1, 0, {1}, Sends(<<1>>), {PromptMsg, BareMsg}, {}, {})
    /\ InitServer

NextAbort ==
    \/ Start
    \/ OtherProcessBinds
    \/ Serve
    \/ \E c \in Clients : Connect(c)
    \/ \E c \in Clients, m \in Msgs : Send(c, m)

SpecAbort == InitAbort /\ [][NextAbort]_vars

\* start_instance has aborted: the readiness loop gave up (exit(2)), or the
\* bind of line 199 raised OSError
Aborted == outcome \in {"exit_not_ready", "OSError"}

\* C11: when start_instance aborts on the readiness timeout or on the real
\* bind failing after a successful probe, no listening socket is open, the
\* running flag is cleared and no engine subprocess is left running
C11_AbortLeavesNothing ==
    Aborted =>
        /\ Listening = {}
        /\ ~server_running
        /\ maxima_instance = 0

\* C12: over every sequence of start_instance and stop calls (SpecStop) at
\* most one listening socket of the server is open at any time, and
\* self.port, once set to a port, never takes a different value
C12_OneSocketOnePort ==
    /\ [](Cardinality(Listening) <= 1)
    /\ [][port # None => port' = port]_vars

\* a change of the engine status is one of the three moves
StatusMoves ==
    maxima_status' # maxima_status =>
        \/ /\ maxima_status = "None" /\ maxima_status' = "INIT"
           /\ maxima_instance' # maxima_instance
        \/ maxima_status = "INIT" /\ maxima_status' \in {"READY", "FAILED"}

\* READY and FAILED are not left
StatusStays ==
    maxima_status \in {"READY", "FAILED"} => maxima_status' = maxima_status

\* C13: the engine status moves only from not started (None) to INIT, when
\* the engine process is launched, from INIT to READY, and from INIT to
\* FAILED on the readiness timeout; READY and FAILED are never left, over
\* every sequence of start_instance and stop calls (SpecStop)
C13_StatusMachine ==
    /\ [](maxima_status \in {"None", "INIT", "READY", "FAILED"})
    /\ [](outcome = "exit_not_ready" => maxima_status = "FAILED")
    /\ [][StatusMoves]_vars
    /\ [][StatusStays]_vars


(***************************************************************************)
(* SpecHalt: start_instance and stop in any order, stop also on a server   *)
(* that was never started; the engine answers the start and a client       *)
(* connects to the running server.  The acceptor and session threads are   *)
(* scheduled fairly.                                                       *)
(***************************************************************************)
InitHalt ==
    /\ port_range = TupleRange(<<0, 2>>)
    /\ handler = "echo"
    /\ busy = {}
    /\ scenario = Scenario(HaltStarts, HaltStops, {1, 2}, Sends(<<HaltStarts, 0>>),
                           {BareMsg}, {2}, {})
    /\ InitServer

NextHalt ==
    \/ Start
    \/ Stop
    \/ Serve
    \/ \E c \in Clients : Connect(c)
    \/ \E c \in Clients, m \in Msgs : Send(c, m)

\* the acceptor and session threads that can run get to run
Threads ==
    /\ \A a \in Acceptors :
          WF_vars(AcceptCheck(a)) /\ WF_vars(Accept(a)) /\ WF_vars(AcceptSpawn(a))
    /\ \A c \in Clients : WF_vars(SessionCheck(c)) /\ WF_vars(SessionRecv(c))

SpecHalt == InitHalt /\ [][NextHalt]_vars /\ Threads

\* stop() has cleared the flag and closed the listening socket, and has
\* not returned
Halting == pc = "stop_join"

\* acceptor a is in its loop
InLoop(a) == apc[a] \notin {"none", "done"}

\* the acceptor that stop() joins has left its loop
Joined == _server_thread # None /\ apc[_server_thread] = "done"

\* no acceptor is in its loop
AllEnded == \A a \in Acceptors : ~InLoop(a)

\* C14: once stop() has cleared the flag and closed the listening socket,
\* every accept loop ends: the acceptor that stop() joins ends before stop()
\* returns, any other one ends unless start_instance sets the flag again
\* (or ends the process); an accept on the closed socket returns (timeout
\* or socket error) without a connection
C14_AcceptLoopEnds ==
    /\ (Halting /\ _server_thread # None) ~> Joined
    /\ Halting ~> (AllEnded \/ server_running \/ ~Alive)
    /\ [][\A a \in Acceptors :
            (apc[a] = "accept" /\ apc'[a] # "accept"
             /\ socks[server_socket].state = "closed")
            => (apc'[a] \in {"check", "done"} /\ accepted' = accepted)]_vars

\* stop() has returned after closing the socket under an acceptor that was
\* waiting in accept with a session started
C14_Witness ==
    /\ Stopped
    /\ apc[_server_thread] = "done"
    /\ \E c \in Clients : spc[c] # "none"


(***************************************************************************)
(* SpecSession: one start_instance, then the sessions of the engine and of *)
(* a client of the running server while stop is called: the peers send text or bytes that are not  *)
(* UTF-8, stay silent, hang up or reset the connection; the handler        *)
(* returns or raises.  The acceptor and session threads are scheduled      *)
(* fairly.                                                                 *)
(***************************************************************************)
InitSession ==
    /\ port_range = TupleRange(<<0, 2>>)
    /\ handler \in {"echo", "raising"}
    /\ busy = {}
    /\ scenario = Scenario(1, SessionStops, {1, 2},
                           Sends(<<1, SessionSends>>),
                           {BareMsg, BadMsg}, {2}, {})
    /\ InitServer

NextSession ==
    \/ Start
    \/ Stop
    \/ Serve
    \/ \E c \in Clients : Connect(c)
    \/ \E c \in Clients, m \in Msgs : Send(c, m)
    \/ \E c \in Clients : PeerCloses(c)
    \/ \E c \in Clients : PeerResets(c)

SpecSession == InitSession /\ [][NextSession]_vars /\ Threads

\* session c is in its loop
Serving(c) == spc[c] \in {"check", "recv"}

\* session c has left its loop and its client socket is closed
SessionEnded(c) == ~Serving(c) /\ client_socket[c] = "closed"

\* C15: once stop() has cleared the flag, every session that is in its
\* loop, whatever its peer does, eventually leaves it and closes its client
\* socket
C15_SessionsEnd ==
    \A c \in Clients : (~server_running /\ Serving(c)) ~> SessionEnded(c)

\* C16: a session whose loop has ended, on an empty read, on the cleared
\* flag, on a connection reset, or on an exception from decoding or from
\* the handler, has closed its client socket
C16_EndedIsClosed ==
    \A c \in Clients :
        spc[c] \in {"done", "died"} => client_socket[c] = "closed"

\* session c ends on a connection reset in this step
EndsOnReset(c) == spc[c] = "recv" /\ peer[c] = "reset" /\ spc'[c] # "recv"

\* C17: the step in which a session ends on a connection reset closes that
\* session's socket and changes nothing else: the flag, the listening
\* socket, the acceptors, the queue and every other session are as before,
\* the other sessions still in their loops
C17_ResetIsLocal ==
    [][\A c \in Clients :
          EndsOnReset(c) =>
              /\ spc'[c] = "done" /\ client_socket'[c] = "closed"
              /\ server_running' = server_running
              /\ socks' = socks /\ server_socket' = server_socket
              /\ apc' = apc /\ accepted' = accepted
              /\ _server_thread' = _server_thread
              /\ response_queue' = response_queue /\ published' = published
              /\ pc' = pc /\ maxima_status' = maxima_status
              /\ \A d \in Clients \ {c} :
                    /\ spc'[d] = spc[d]
                    /\ client_socket'[d] = client_socket[d]
                    /\ inbox'[d] = inbox[d]]_vars

\* a session has ended on a reset while the server runs, the acceptor is in
\* its loop, the other session is in its loop with a chunk to read and an
\* envelope is queued
C17_Witness ==
    \E c, d \in Clients :
        /\ c # d
        /\ peer[c] = "reset" /\ spc[c] = "done" /\ client_socket[c] = "closed"
        /\ Serving(d) /\ inbox[d] # <<>>
        /\ server_running /\ InLoop(_server_thread)
        /\ response_queue # <<>>

\* C19: while the flag is cleared by stop(), each session has put at most
\* one envelope on the queue since the flag was cleared, and a session
\* started after the flag was cleared has put none
C19_AtMostOneMore ==
    ~server_running =>
        \A c \in Clients :
            /\ since[c].put <= 1
            /\ since[c].born => since[c].put = 0

\* a session has put its one further envelope and ended, leaving a chunk
\* that its peer sent afterwards unread
C19_Witness ==
    /\ ~server_running
    /\ \E c \in Clients :
          since[c].put = 1 /\ spc[c] = "done" /\ inbox[c] # <<>>

\* C18: stop() on a server that was constructed and never started completes
\* without raising and leaves the server stopped (SpecHalt)
C18_StopUnstarted ==
    (starts = 0 /\ stops > 0 /\ pc = "idle") =>
        /\ outcome = "stopped"
        /\ ~server_running


(***************************************************************************)
(* SpecAfter: one start_instance, a client of the running server sends,    *)
(* stop is called, and a consumer calls get_response once stop has         *)
(* returned.                                                               *)
(***************************************************************************)
InitAfter ==
    /\ port_range = TupleRange(<<0, 2>>)
    /\ handler = "echo"
    /\ busy = {}
    /\ scenario = Scenario(1, AfterStops, {1, 2}, Sends(<<1, AfterSends>>),
                           {BareMsg, PromptMsg}, {2}, {1})
    /\ InitServer

NextAfter ==
    \/ Start
    \/ Stop
    \/ Serve
    \/ \E c \in Clients : Connect(c)
    \/ \E c \in Clients, m \in Msgs : Send(c, m)
    \/ \E k \in Consumers : Stopped /\ GetResponse(k)

SpecAfter == InitAfter /\ [][NextAfter]_vars

\* a step of stop()
StopStep == pc' # pc /\ (pc' \in {"stop_close", "stop_join"} \/ pc = "stop_join")

\* a get_response call that returns an envelope
Dequeues == dequeued' # dequeued /\ dequeued'[Len(dequeued')].by # MainCaller

\* C20: the steps of stop() leave the engine subprocess handle, the engine
\* status, the selected port, the response queue and the sessions as they
\* are, and a get_response after stop() has returned still returns the
\* head of the queue
C20_StopKeepsQueue ==
    /\ [][StopStep =>
            /\ maxima_instance' = maxima_instance
            /\ maxima_status' = maxima_status
            /\ port' = port
            /\ response_queue' = response_queue /\ published' = published
            /\ spc' = spc /\ client_socket' = client_socket]_vars
    /\ [][(Stopped /\ Dequeues) =>
            /\ response_queue # <<>>
            /\ dequeued'[Len(dequeued')].env = Head(response_queue)
            /\ response_queue' = Tail(response_queue)]_vars
    /\ []((Stopped /\ response_queue # <<>>) =>
            \A k \in Consumers : k \in scenario.consumers => ENABLED GetResponse(k))

\* an envelope that was queued when stop() was called has been returned by
\* a get_response after stop() returned, the status and the port being
\* those of the running server
C20_Witness ==
    /\ Stopped
    /\ \E i \in DOMAIN dequeued :
          dequeued[i].by # MainCaller /\ since[dequeued[i].env.address].put = 0
    /\ maxima_status = "READY" /\ port # None /\ maxima_instance = 1

====
